---- MODULE Spec2Model ----
(***************************************************************************)
(* Conversation-starter selection engine of the icebreaker repository:     *)
(* ConversationService (diverse and targeted selection over a static       *)
(* question catalog, with a per-session list of question ids already       *)
(* surfaced), IntelligentQuestionService (the AI-assisted path and its     *)
(* internal fallback) and generateIcebreakers, which composes them.        *)
(*                                                                         *)
(* The question catalog itself (data/conversationStarters.js, with         *)
(* getQuestionsByCategory, getQuestionsByTags and getRandomQuestions) is   *)
(* not among the source files; it is modelled from the specification's     *)
(* description of the QuestionBank and of the backfill step.               *)
(***************************************************************************)
EXTENDS Integers, Sequences, FiniteSets, TLC

VARIABLES
    sessionQuestions,  \* ConversationService.sessionQuestions: session key -> used ids
    profile,           \* the profile object the caller holds and passes in
    last,              \* the selection operation that ran most recently
    calls,             \* number of selection operations so far
    conc,              \* the concurrent callers of SpecConc
    running,           \* the caller whose synchronous call is on the stack, or 0
    apiKey,            \* whether process.env.GOOGLE_API_KEY is configured
    gen,               \* the generateIcebreakers request in progress
    prevGen,           \* what the previous generateIcebreakers request surfaced
    now,               \* the day the clock shows (new Date())
    analysis,          \* the calls of analyzeProfileForRAG made so far
    returned           \* the PersonalizedQuestion list the last selection returned

vars ==
    <<sessionQuestions, profile, last, calls, conc, running, apiKey, gen, prevGen,
      now, analysis, returned>>

concVars == <<conc, running>>

genVars == <<apiKey, gen, prevGen>>

anaVars == <<now, analysis, returned>>

(***************************************************************************)
(* Bounds of the model.                                                    *)
(***************************************************************************)
\* number of entries of the question catalog
CatalogSize == 5
\* number of selection operations in one behaviour of Spec
MaxCalls == 2
\* number of concurrent callers in SpecConc
NumCallers == 3
\* the negative counts -NegCounts..-1 are among the counts a caller passes
NegCounts == 1

\* the longest questions list a response of the completion service holds
MaxAiEntries == 2

(***************************************************************************)
(* Generic helpers.                                                        *)
(***************************************************************************)
Range(s) == {s[i] : i \in DOMAIN s}

Min(a, b) == IF a < b THEN a ELSE b

Max(a, b) == IF a > b THEN a ELSE b

NoDuplicates(s) == \A i, j \in DOMAIN s : i # j => s[i] # s[j]

\* all duplicate-free sequences of exactly n elements of the set S
RECURSIVE InjectiveSeqs(_, _)
InjectiveSeqs(S, n) ==
    IF n <= 0 \/ S = {} THEN {<<>>}
    ELSE UNION {{<<x>> \o r : r \in InjectiveSeqs(S \ {x}, n - 1)} : x \in S}

\* Array.prototype.slice(0, end): a negative end counts from the end of the array
JsSlice0(s, end) ==
    LET k == IF end < 0 THEN Max(Len(s) + end, 0) ELSE Min(end, Len(s))
    IN  SubSeq(s, 1, k)

\* the JavaScript remainder a % b for b > 0: the result has the sign of a
JsRem(a, b) == IF a >= 0 THEN a % b ELSE 0 - ((0 - a) % b)

\* Math.floor(a / b) for b > 0
JsFloorDiv(a, b) == IF a >= 0 THEN a \div b ELSE 0 - (((0 - a) + b - 1) \div b)

(***************************************************************************)
(* The question catalog (QuestionBank): immutable, ids unique.             *)
(***************************************************************************)
\* the fixed, ordered category list of calculateCategoryDistribution
Categories == <<"career_background", "soft_skills", "personality_motivation">>

CatalogIds == 1..CatalogSize

CategoryOf(id) == Categories[((id - 1) % 3) + 1]

SubcategoryOf(id) ==
    IF ((id - 1) \div 3) % 2 = 0 THEN "experience" ELSE "leadership"

TagTable ==
    << {"leadership", "management"},
       {"technical", "skills"},
       {"goals", "motivation"},
       {"experience", "career"} >>

TagsOf(id) == TagTable[((id - 1) % 4) + 1]

\* conversationStarters: the catalog in its stored order
conversationStarters == [i \in 1..CatalogSize |-> i]

getQuestionsByCategory(category) ==
    SelectSeq(conversationStarters, LAMBDA id : CategoryOf(id) = category)

getQuestionsByTags(tags) ==
    SelectSeq(conversationStarters, LAMBDA id : TagsOf(id) \cap tags # {})

getQuestionsBySubcategory(subcategory) ==
    SelectSeq(conversationStarters, LAMBDA id : SubcategoryOf(id) = subcategory)

\* the results getRandomQuestions(count, excludeIds) can draw: count random
\* catalog entries outside excludeIds, or all that are left when fewer remain
getRandomQuestions(count, excludeIds) ==
    LET avail == CatalogIds \ excludeIds
    IN  InjectiveSeqs(avail, Min(count, Cardinality(avail)))

(***************************************************************************)
(* Profile data handed to the selection (ConversationContext.profileData). *)
(* A text field is a string of the model's vocabulary; Keywords gives the  *)
(* lower-case keywords that toLowerCase().includes(...) finds in it.       *)
(***************************************************************************)
Absent == "<absent>"

Keywords(text) ==
    CASE text = "Lead Engineer" -> {"lead", "engineer"}
      [] text = "Senior Software Engineer" -> {"engineer", "software", "senior"}
      [] text = "Developer" -> {"developer"}
      [] text = "Director" -> {"director"}
      [] text = "Technology" -> {"tech"}
      [] text = "python" -> {"python"}
      [] text = "AWS Project Management" -> {"aws", "project", "management"}
      [] text = "leadership" -> {"leadership", "lead"}
      [] OTHER -> {}

Includes(text, keyword) == text # Absent /\ keyword \in Keywords(text)

(***************************************************************************)
(* Duration texts and their parsing.  A duration text is the sequence of   *)
(* its blank-separated tokens: a run of digits is a number token, anything *)
(* else a word token.  The empty text stands for an absent duration (both  *)
(* are falsy).  Years are counted in tenths, the precision of the result.  *)
(***************************************************************************)
Num(n) == [num |-> n]

Word(w) == [word |-> w]

IsNum(token) == "num" \in DOMAIN token

IsWord(token) == "word" \in DOMAIN token

NoDuration == <<>>

\* the words /(?:yr|year)s?/i and /(?:mo|month)s?/i match
YearWords == {"yr", "yrs", "year", "years", "Yr", "Yrs", "Year", "Years"}

MonthWords == {"mo", "mos", "month", "months", "Mo", "Mos", "Month", "Months"}

\* the positions where a number token is followed by a word of the set
UnitMatches(text, words) ==
    {i \in 1..(Len(text) - 1) :
        IsNum(text[i]) /\ IsWord(text[i + 1]) /\ text[i + 1].word \in words}

\* parseInt(match[1]) of the first match of /(\d+)\s*unit/i, 0 without a match
FirstUnit(text, words) ==
    LET matches == UnitMatches(text, words)
    IN  IF matches = {} THEN 0
        ELSE text[CHOOSE i \in matches : \A j \in matches : i <= j].num

MonthNames ==
    <<"Jan", "Feb", "Mar", "Apr", "May", "Jun", "Jul", "Aug", "Sep", "Oct", "Nov", "Dec">>

\* the month new Date("Mmm YYYY") reads, 0 for an invalid date
MonthIndex(word) ==
    IF \E m \in DOMAIN MonthNames : MonthNames[m] = word
    THEN CHOOSE m \in DOMAIN MonthNames : MonthNames[m] = word
    ELSE 0

IsLeap(y) == (y % 4 = 0 /\ y % 100 # 0) \/ y % 400 = 0

DaysBeforeMonth == <<0, 31, 59, 90, 120, 151, 181, 212, 243, 273, 304, 334>>

\* the number of the day d of month m of year y, counted in days
DayNumber(y, m, d) ==
    365 * (y - 1) + ((y - 1) \div 4) - ((y - 1) \div 100) + ((y - 1) \div 400)
      + DaysBeforeMonth[m] + (IF m > 2 /\ IsLeap(y) THEN 1 ELSE 0) + (d - 1)

\* \w{3}\s+\d{4}: a word and a number of four digits
IsMonthYear(text, i) ==
    /\ i + 1 <= Len(text)
    /\ IsWord(text[i]) /\ IsNum(text[i + 1])
    /\ text[i + 1].num >= 1000 /\ text[i + 1].num <= 9999

\* the hyphen and the en dash of /[-\u2013]/
EnDash == "<en dash>"

IsDash(token) == IsWord(token) /\ token.word \in {"-", EnDash}

IsPresent(token) == IsWord(token) /\ token.word \in {"Present", "present"}

\* the positions where /(\w{3}\s+\d{4})\s*[-\u2013]\s*(\w{3}\s+\d{4}|Present)/i matches
DateRangeMatches(text) ==
    {i \in 1..Len(text) :
        /\ IsMonthYear(text, i)
        /\ i + 3 <= Len(text)
        /\ IsDash(text[i + 2])
        /\ (IsMonthYear(text, i + 3) \/ IsPresent(text[i + 3]))}

\* the months of the first date range of the text, on the day today:
\* Math.ceil(diffTime / (1000 * 60 * 60 * 24 * 30.44)), 0 when there is no
\* range or one of its dates is invalid
DateRangeMonths(text, today) ==
    LET matches == DateRangeMatches(text)
    IN  IF matches = {} THEN 0
        ELSE LET i == CHOOSE k \in matches : \A j \in matches : k <= j
                 startMonth == MonthIndex(text[i].word)
                 toPresent == IsPresent(text[i + 3])
                 endMonth == IF toPresent THEN 1 ELSE MonthIndex(text[i + 3].word)
             IN  IF startMonth = 0 \/ endMonth = 0 THEN 0
                 ELSE LET startDay == DayNumber(text[i + 1].num, startMonth, 1)
                          endDay == IF toPresent THEN today
                                    ELSE DayNumber(text[i + 4].num, endMonth, 1)
                          days == IF endDay >= startDay THEN endDay - startDay
                                  ELSE startDay - endDay
                      IN  (days * 100 + 3043) \div 3044

\* the months one experience entry contributes
DurationMonths(text, today) ==
    LET months == FirstUnit(text, YearWords) * 12 + FirstUnit(text, MonthWords)
    IN  IF text = NoDuration THEN 0
        ELSE IF months # 0 THEN months
        ELSE DateRangeMonths(text, today)

RECURSIVE TotalMonths(_, _)
TotalMonths(experience, today) ==
    IF experience = <<>> THEN 0
    ELSE DurationMonths(Head(experience).duration, today)
            + TotalMonths(Tail(experience), today)

\* the total cut off after the first decimal instead of rounded
calculateExperienceYearsTruncated(experience, today) ==
    Max((TotalMonths(experience, today) * 10) \div 12, 0)

\* calculateExperienceYears in tenths of a year:
\* Math.round((totalMonths / 12) * 10) / 10, then Math.max(totalYears, 0)
calculateExperienceYears(experience, today) ==
    Max((TotalMonths(experience, today) * 10 + 6) \div 12, 0)

\* the day the model starts on: 1 November 2026
Today == DayNumber(2026, 11, 1)

\* profiles as the caller holds them (ScrapedProfile): every field optional
PlainScraped ==
    [name |-> Absent, title |-> Absent, skills |-> <<>>, experience |-> <<>>,
     education |-> <<>>, yearsOfExperience |-> 0]

LeadScraped ==
    [name |-> "Ada", title |-> "Lead Engineer", skills |-> <<"python", "leadership">>,
     experience |->
        << [title |-> "Lead Engineer", company |-> "Acme", industry |-> "Technology",
            duration |-> <<Num(2), Word("yrs")>>, startYear |-> 2022],
           [title |-> "Developer", company |-> "Initech", industry |-> "Technology",
            duration |-> NoDuration, startYear |-> 2018] >>,
     education |-> << [school |-> "MIT", degree |-> "BSc"] >>,
     yearsOfExperience |-> 0]

ScrapedProfiles == {PlainScraped, LeadScraped}

\* profile.experience?.[0]?.company and .industry
TopCompany(p) == IF Len(p.experience) > 0 THEN p.experience[1].company ELSE Absent

TopIndustry(p) == IF Len(p.experience) > 0 THEN p.experience[1].industry ELSE Absent

\* the ConversationContext.profileData that generateIcebreakers builds from a
\* profile; education entries become the text `${e.degree} from ${e.school}`
ProfileDataOf(p) ==
    [name |-> p.name, title |-> p.title, company |-> TopCompany(p),
     industry |-> TopIndustry(p), skills |-> p.skills,
     education |-> [i \in DOMAIN p.education |->
                      <<p.education[i].degree, "from", p.education[i].school>>],
     experience |-> p.experience]

Profiles == {ProfileDataOf(p) : p \in ScrapedProfiles}

(***************************************************************************)
(* RelevanceScorer.                                                        *)
(***************************************************************************)
\* Math.random() * 2 lies in [0, JitterRange)
JitterRange == 2

skillKeywords == {"python", "javascript", "management", "leadership", "data", "analysis"}

\* calculateRelevanceScore without its random jitter: the additive point rules
RuleScore(id, profileData) ==
    LET tags == TagsOf(id)
        title == profileData.title
        industry == profileData.industry
        skills == profileData.skills
        hasRelevantSkills ==
            \E i \in DOMAIN skills : \E k \in skillKeywords : Includes(skills[i], k)
    IN  (IF title # Absent /\ "leadership" \in tags /\ Includes(title, "lead")
           THEN 3 ELSE 0)
      + (IF title # Absent /\ "management" \in tags /\ Includes(title, "manager")
           THEN 3 ELSE 0)
      + (IF title # Absent /\ "technical" \in tags
              /\ (Includes(title, "engineer") \/ Includes(title, "developer"))
           THEN 3 ELSE 0)
      + (IF industry # Absent /\ "technology" \in tags /\ Includes(industry, "tech")
           THEN 2 ELSE 0)
      + (IF industry # Absent /\ "finance" \in tags /\ Includes(industry, "finance")
           THEN 2 ELSE 0)
      + (IF Len(skills) > 0 /\ hasRelevantSkills
              /\ ("skills" \in tags \/ "technical" \in tags)
           THEN 2 ELSE 0)
      + (IF Len(profileData.experience) > 5 /\ "senior" \in tags THEN 2 ELSE 0)
      + (IF Len(profileData.experience) > 0 /\ Len(profileData.experience) < 3
              /\ "early_career" \in tags
           THEN 2 ELSE 0)

\* The orders rankQuestionsByRelevance can produce for the id set S.  Every
\* question is scored once, RuleScore plus a jitter in [0, JitterRange), and the
\* list is sorted by descending score: an order is producible exactly when no
\* question stands before one whose RuleScore is larger by JitterRange or more.
RECURSIVE RankedOrders(_, _)
RankedOrders(S, profileData) ==
    IF S = {} THEN {<<>>}
    ELSE UNION {{<<q>> \o r : r \in RankedOrders(S \ {q}, profileData)} :
                q \in {x \in S : \A y \in S :
                         RuleScore(y, profileData) - RuleScore(x, profileData)
                             < JitterRange}}

rankQuestionsByRelevance(questions, profileData) ==
    RankedOrders(Range(questions), profileData)

(***************************************************************************)
(* SessionTracker: ConversationService.sessionQuestions, a Map from a      *)
(* session key to the ordered list of ids surfaced for it.                 *)
(***************************************************************************)
\* a caller that passes no sessionId
NoSessionId == "<undefined>"

SessionIds == {"A", "B"}

\* this.sessionQuestions.get(key) || []
UsedQuestions(map, key) == IF key \in DOMAIN map THEN map[key] ELSE <<>>

\* a map rebuilt with the one key only
MapSetAlone(map, key, ids) == [k \in {key} |-> ids]

\* this.sessionQuestions.set(key, ids)
MapSet(map, key, ids) ==
    [k \in DOMAIN map \cup {key} |-> IF k = key THEN ids ELSE map[k]]

\* this.sessionQuestions.delete(key)
MapDelete(map, key) == [k \in DOMAIN map \ {key} |-> map[k]]

\* every caller mapped to the one default session
DiverseSessionKeyShared(sessionId) == "default"

\* an absent sessionId used as a key of its own
DiverseSessionKeyLiteral(sessionId) == sessionId

\* getDiverseQuestions: const { sessionId = 'default' } = context
DiverseSessionKey(sessionId) ==
    IF sessionId = NoSessionId THEN "default" ELSE sessionId

\* getTargetedQuestions: context.sessionId || 'default'
TargetedSessionKey(sessionId) ==
    IF sessionId = NoSessionId \/ sessionId = "" THEN "default" ELSE sessionId

(***************************************************************************)
(* DiversitySelector: ConversationService.getDiverseQuestions.             *)
(***************************************************************************)
\* the remainder handed to the last categories instead of the first
calculateCategoryDistributionLate(totalCount) ==
    LET baseCount == JsFloorDiv(totalCount, Len(Categories))
        remainder == JsRem(totalCount, Len(Categories))
    IN  [i \in DOMAIN Categories |->
            baseCount + (IF Len(Categories) - i < remainder THEN 1 ELSE 0)]

\* calculateCategoryDistribution: the target of the i-th category of Categories
calculateCategoryDistribution(totalCount) ==
    LET baseCount == JsFloorDiv(totalCount, Len(Categories))
        remainder == JsRem(totalCount, Len(Categories))
    IN  [i \in DOMAIN Categories |-> baseCount + (IF i - 1 < remainder THEN 1 ELSE 0)]

\* the filter left out: every question of the category stays a candidate
AvailableQuestionsUnfiltered(questions, usedQuestions) == questions

\* categoryQuestions.filter(q => !usedQuestions.includes(q.id))
AvailableQuestions(questions, usedQuestions) ==
    SelectSeq(questions, LAMBDA id : id \notin Range(usedQuestions))

\* one pass of the category loop: the picks it can push for category i
CategoryPicks(i, usedQuestions, profileData, categoryCount) ==
    LET availableQuestions ==
            AvailableQuestions(getQuestionsByCategory(Categories[i]), usedQuestions)
    IN  IF Len(availableQuestions) > 0
        THEN {JsSlice0(r, categoryCount) :
                r \in rankQuestionsByRelevance(availableQuestions, profileData)}
        ELSE {<<>>}

\* the category loop as a whole: selectedQuestions after it, in category order
CategorySelections(usedQuestions, profileData, count) ==
    LET dist == calculateCategoryDistribution(count)
    IN  {a \o b \o c :
            a \in CategoryPicks(1, usedQuestions, profileData, dist[1]),
            b \in CategoryPicks(2, usedQuestions, profileData, dist[2]),
            c \in CategoryPicks(3, usedQuestions, profileData, dist[3])}

\* the backfill left out: a short category selection is returned as it is
BackfilledNever(selected, usedQuestions, count) == {selected}

\* the backfill excluding only this call's picks, not the session's used ids
BackfilledIgnoringUsed(selected, usedQuestions, count) ==
    IF Len(selected) < count
    THEN {selected \o r :
            r \in getRandomQuestions(count - Len(selected), Range(selected))}
    ELSE {selected}

\* the backfill put in front of the category picks
BackfilledFirst(selected, usedQuestions, count) ==
    IF Len(selected) < count
    THEN {r \o selected :
            r \in getRandomQuestions(count - Len(selected),
                                     Range(usedQuestions) \cup Range(selected))}
    ELSE {selected}

\* "If we don't have enough questions, fill with random ones"
Backfilled(selected, usedQuestions, count) ==
    IF Len(selected) < count
    THEN {selected \o r :
            r \in getRandomQuestions(count - Len(selected),
                                     Range(usedQuestions) \cup Range(selected))}
    ELSE {selected}

\* every selectedQuestions (as ids) one call of getDiverseQuestions can end with
DiverseSelections(usedQuestions, profileData, count) ==
    UNION {Backfilled(s, usedQuestions, count) :
             s \in CategorySelections(usedQuestions, profileData, count)}

\* the session list overwritten with the new ids instead of extended
RecordUsedReplacing(map, key, usedQuestions, newQuestionIds) ==
    MapSet(map, key, newQuestionIds)

\* this.sessionQuestions.set(sessionId, [...usedQuestions, ...newQuestionIds])
RecordUsed(map, key, usedQuestions, newQuestionIds) ==
    MapSet(map, key, usedQuestions \o newQuestionIds)

(***************************************************************************)
(* Targeted selection: ConversationService.getTargetedQuestions.           *)
(***************************************************************************)
\* count: number = 3
DefaultTargetedCount == 3

\* a criterion the caller left out
NoCriterion == "<none>"

CriteriaSet ==
    { [category |-> "soft_skills", tags |-> {NoCriterion}, subcategory |-> NoCriterion],
      [category |-> NoCriterion, tags |-> {"leadership"}, subcategory |-> NoCriterion],
      [category |-> NoCriterion, tags |-> {NoCriterion}, subcategory |-> "experience"],
      [category |-> NoCriterion, tags |-> {NoCriterion}, subcategory |-> NoCriterion] }


\* the criteria ignored: the whole catalog is the candidate list
CriteriaQuestionsUnfiltered(criteria) == conversationStarters

\* the if / else-if chain over criteria.category, criteria.tags, criteria.subcategory
CriteriaQuestions(criteria) ==
    IF criteria.category # NoCriterion THEN getQuestionsByCategory(criteria.category)
    ELSE IF criteria.tags # {NoCriterion} THEN getQuestionsByTags(criteria.tags)
    ELSE IF criteria.subcategory # NoCriterion
         THEN getQuestionsBySubcategory(criteria.subcategory)
    ELSE <<>>

\* the targeted selection without the filter on the session's used ids
TargetedSelectionsUnfiltered(criteria, usedQuestions, profileData, count) ==
    {JsSlice0(r, count) :
        r \in rankQuestionsByRelevance(CriteriaQuestions(criteria), profileData)}

\* getTargetedQuestions: filter by criteria, drop the used ids, rank, slice
TargetedSelections(criteria, usedQuestions, profileData, count) ==
    LET availableQuestions ==
            AvailableQuestions(CriteriaQuestions(criteria), usedQuestions)
    IN  {JsSlice0(r, count) :
            r \in rankQuestionsByRelevance(availableQuestions, profileData)}

(***************************************************************************)
(* The selection operations as steps of the program.  last describes the   *)
(* operation that ran most recently: its arguments, the session list it    *)
(* read, the ids of the questions it returned and whether it raised.       *)
(***************************************************************************)
Counts == (0 - NegCounts)..(CatalogSize + 1)

\* targeted selection: a rejected count, one question, and the default of three
TargetedCounts == {0 - NegCounts, 1, DefaultTargetedCount}

NoCriteria ==
    [category |-> NoCriterion, tags |-> {NoCriterion}, subcategory |-> NoCriterion]

NoOp ==
    [op |-> "none", sessionId |-> NoSessionId, key |-> "default", count |-> 0,
     criteria |-> NoCriteria, usedBefore |-> <<>>, result |-> <<>>, raised |-> FALSE]

DiverseCall(sessionIds, counts) ==
    /\ calls < MaxCalls
    /\ \E sessionId \in sessionIds, count \in counts :
         LET key == DiverseSessionKey(sessionId)
             usedQuestions == UsedQuestions(sessionQuestions, key)
         IN  \E selected \in DiverseSelections(usedQuestions, profile, count) :
               /\ sessionQuestions' =
                    RecordUsed(sessionQuestions, key, usedQuestions, selected)
               /\ last' = [op |-> "diverse", sessionId |-> sessionId, key |-> key,
                           count |-> count, criteria |-> NoCriteria,
                           usedBefore |-> usedQuestions,
                           result |-> selected, raised |-> FALSE]
    /\ calls' = calls + 1
    /\ UNCHANGED <<profile, concVars, genVars, now, analysis>>

TargetedCall(sessionIds, counts) ==
    /\ calls < MaxCalls
    /\ \E criteria \in CriteriaSet, sessionId \in sessionIds, count \in counts :
         LET key == TargetedSessionKey(sessionId)
             usedQuestions == UsedQuestions(sessionQuestions, key)
         IN  \E selected \in
                   TargetedSelections(criteria, usedQuestions, profile, count) :
               /\ sessionQuestions' =
                    RecordUsed(sessionQuestions, key, usedQuestions, selected)
               /\ last' = [op |-> "targeted", sessionId |-> sessionId, key |-> key,
                           count |-> count, criteria |-> criteria,
                           usedBefore |-> usedQuestions,
                           result |-> selected, raised |-> FALSE]
    /\ calls' = calls + 1
    /\ UNCHANGED <<profile, concVars, genVars, now, analysis>>

\* clearSession(sessionId: string): the key is the argument itself
ClearSessionOf(keys) ==
    /\ calls < MaxCalls
    /\ \E key \in keys :
         /\ sessionQuestions' = MapDelete(sessionQuestions, key)
         /\ last' = [op |-> "clear", sessionId |-> key, key |-> key, count |-> 0,
                     criteria |-> NoCriteria,
                     usedBefore |-> UsedQuestions(sessionQuestions, key),
                     result |-> <<>>, raised |-> FALSE]
    /\ calls' = calls + 1
    /\ UNCHANGED <<profile, concVars, genVars, anaVars>>

ClearSession == ClearSessionOf(SessionIds)

Init ==
    /\ sessionQuestions = <<>>
    /\ profile \in Profiles
    /\ last = NoOp
    /\ calls = 0
    /\ conc = <<>>
    /\ running = 0
    /\ apiKey = FALSE
    /\ gen = <<>>
    /\ prevGen = <<>>
    /\ now = Today
    /\ analysis = <<>>
    /\ returned = <<>>

\* callers that pass any count, negative ones included
GetDiverseQuestions == DiverseCall(SessionIds, Counts) /\ UNCHANGED returned

GetTargetedQuestions == TargetedCall(SessionIds, TargetedCounts) /\ UNCHANGED returned

Next == GetDiverseQuestions \/ GetTargetedQuestions \/ ClearSession

Spec == Init /\ [][Next]_vars

\* callers that keep to the contract count >= 0
GetDiverseQuestionsValid == DiverseCall(SessionIds, Counts \cap Nat) /\ UNCHANGED returned

GetTargetedQuestionsValid == TargetedCall(SessionIds, TargetedCounts \cap Nat) /\ UNCHANGED returned

NextValid == GetDiverseQuestionsValid \/ GetTargetedQuestionsValid \/ ClearSession

SpecValid == Init /\ [][NextValid]_vars

(***************************************************************************)
(* Concurrent callers of getDiverseQuestions on one session (SpecConc).    *)
(* Each caller is a request handler that calls                             *)
(* getDiverseQuestions({sessionId: "A"}, 1) once.  The method is           *)
(* synchronous (it holds no await), so the JavaScript event loop runs it   *)
(* to completion: running names the caller whose call is on the stack, and *)
(* a call starts only when no other call is.  conc[c] holds the caller's   *)
(* position and the locals usedQuestions and selectedQuestions.            *)
(***************************************************************************)
Callers == 1..NumCallers

ConcSession == "A"

\* a call may start at any time, also while another call is on the stack
CanStartAnyTime == TRUE

\* run to completion: a call starts only when no call is on the stack
CanStart == running = 0

\* const usedQuestions = this.sessionQuestions.get(sessionId) || []
ConcRead(c) ==
    /\ conc[c].pc = "pending"
    /\ CanStart
    /\ running' = c
    /\ conc' = [conc EXCEPT ![c].pc = "read",
                            ![c].used = UsedQuestions(sessionQuestions,
                                                      DiverseSessionKey(ConcSession))]
    /\ UNCHANGED <<sessionQuestions, profile, last, calls, genVars, anaVars>>

\* the category loop and the backfill
ConcSelect(c) ==
    /\ conc[c].pc = "read"
    /\ \E selected \in DiverseSelections(conc[c].used, profile, 1) :
         conc' = [conc EXCEPT ![c].pc = "selected", ![c].selected = selected]
    /\ UNCHANGED <<sessionQuestions, profile, last, calls, running, genVars, anaVars>>

\* this.sessionQuestions.set(...) and the return
ConcWrite(c) ==
    /\ conc[c].pc = "selected"
    /\ sessionQuestions' =
         RecordUsed(sessionQuestions, DiverseSessionKey(ConcSession),
                    conc[c].used, conc[c].selected)
    /\ conc' = [conc EXCEPT ![c].pc = "done"]
    /\ running' = 0
    /\ UNCHANGED <<profile, last, calls, genVars, anaVars>>

InitConc ==
    /\ sessionQuestions = <<>>
    /\ profile \in Profiles
    /\ last = NoOp
    /\ calls = 0
    /\ conc = [c \in Callers |-> [pc |-> "pending", used |-> <<>>, selected |-> <<>>]]
    /\ running = 0
    /\ apiKey = FALSE
    /\ gen = <<>>
    /\ prevGen = <<>>
    /\ now = Today
    /\ analysis = <<>>
    /\ returned = <<>>

NextConc == \E c \in Callers : ConcRead(c) \/ ConcSelect(c) \/ ConcWrite(c)

SpecConc == InitConc /\ [][NextConc]_vars

(***************************************************************************)
(* Question texts and their personalization.  A text is a sequence of      *)
(* tokens; every phrase one of the replace patterns looks for is a token   *)
(* of its own, so that String.replace(/phrase/gi, ...) is the replacement  *)
(* of every such token.  A later replace call scans the text the earlier   *)
(* calls produced, phrases inside the inserted words included.             *)
(***************************************************************************)
\* the question texts of the catalog
QuestionTemplates ==
    << <<"What drew you to", "your role", "?">>,
       <<"How did you build", "your skills", "?">>,
       <<"What motivates you", "at work", "?">>,
       <<"How has", "your background", "shaped", "your career", "?">> >>

QuestionText(id) == QuestionTemplates[((id - 1) % 4) + 1]

\* the lower-case words includes(...) finds inside a token
PhraseWords(token) ==
    CASE token = "your role" -> {"role"}
      [] token = "your skills" -> {"skill"}
      [] token = "at work" -> {"work"}
      [] token = "your background" -> {"background"}
      [] token = "your career" -> {"career"}
      [] OTHER -> {}

\* question.question.toLowerCase().includes(word)
TextIncludes(text, word) == \E i \in DOMAIN text : word \in PhraseWords(text[i])

RECURSIVE ReplaceAll(_, _, _)
\* text.replace(/pattern/gi, replacement) for the phrases in patterns
ReplaceAll(text, patterns, replacement) ==
    IF text = <<>> THEN <<>>
    ELSE (IF Head(text) \in patterns THEN replacement ELSE <<Head(text)>>)
            \o ReplaceAll(Tail(text), patterns, replacement)

RECURSIVE JoinAnd(_)
\* list.join(' and ')
JoinAnd(list) ==
    IF Len(list) = 0 THEN <<>>
    ELSE IF Len(list) = 1 THEN <<list[1]>>
    ELSE <<list[1], "and">> \o JoinAnd(Tail(list))

isRoleRelevant(id) ==
    \E keyword \in {"work", "job", "role", "career", "professional"} :
        TextIncludes(QuestionText(id), keyword)

isSkillRelevant(id) == "skills" \in TagsOf(id) \/ TextIncludes(QuestionText(id), "skill")

isEducationRelevant(id) ==
    \/ "education" \in TagsOf(id)
    \/ TextIncludes(QuestionText(id), "background")
    \/ TextIncludes(QuestionText(id), "learn")

\* the role substitution made without looking at title and company
personalizeQuestionUnguarded(id, profileData, greet) ==
    ReplaceAll(QuestionText(id),
               {"your work", "your job", "your role", "your career"},
               <<"your work", "as", profileData.title, "at", profileData.company>>)

\* ConversationService.personalizeQuestion: greet is the outcome of
\* Math.random() > 0.5
personalizeQuestion(id, profileData, greet) ==
    LET greeted ==
            IF profileData.name # Absent /\ greet
            THEN <<"Hi", profileData.name, "!">> \o QuestionText(id)
            ELSE QuestionText(id)
        withRole ==
            IF profileData.title # Absent /\ profileData.company # Absent
                 /\ isRoleRelevant(id)
            THEN ReplaceAll(greeted,
                            {"your work", "your job", "your role", "your career"},
                            <<"your work", "as", profileData.title, "at",
                              profileData.company>>)
            ELSE greeted
        withSkills ==
            IF Len(profileData.skills) > 0 /\ isSkillRelevant(id)
            THEN ReplaceAll(withRole, {"your skills"},
                            <<"your expertise", "in">>
                               \o JoinAnd(JsSlice0(profileData.skills, 2)))
            ELSE withRole
    IN  IF Len(profileData.education) > 0 /\ isEducationRelevant(id)
        THEN ReplaceAll(withSkills, {"your background"},
                        <<"your background", "from">> \o profileData.education[1])
        ELSE withSkills

\* the question lists getDiverseQuestions can return as personalized texts
PersonalizedSelections(usedQuestions, profileData, count) ==
    UNION { { [i \in DOMAIN selected |->
                 [id |-> selected[i],
                  text |-> personalizeQuestion(selected[i], profileData, greet[i])]]
              : greet \in [DOMAIN selected -> BOOLEAN] }
            : selected \in DiverseSelections(usedQuestions, profileData, count) }

(***************************************************************************)
(* Profile analysis (analyzeProfileForRAG).  yearsOfExperience is counted  *)
(* in tenths of a year; a supplied value of 0 is falsy like an absent one. *)
(***************************************************************************)
\* a title in the top entry decides the career level
determineCareerLevelByTitle(years, experience) ==
    IF Len(experience) > 0 /\ Includes(experience[1].title, "director")
    THEN "executive"
    ELSE IF years >= 150 THEN "executive"
    ELSE IF years >= 80 THEN "senior"
    ELSE IF years >= 30 THEN "mid"
    ELSE "entry"

\* determineCareerLevel(years, experience): the thresholds 15, 8 and 3 years
determineCareerLevel(years, experience) ==
    IF years >= 150 THEN "executive"
    ELSE IF years >= 80 THEN "senior"
    ELSE IF years >= 30 THEN "mid"
    ELSE "entry"

\* determineRoleSignificance(exp, index), index counted from 1
determineRoleSignificance(exp, index) ==
    IF index = 1 THEN "high"
    ELSE IF Includes(exp.title, "director") \/ Includes(exp.title, "vp")
              \/ Includes(exp.title, "head")
         THEN "high"
    ELSE IF index <= 3 THEN "medium"
    ELSE "low"

\* the supplied yearsOfExperience ignored: the years always computed
extractPersonalContextComputed(p, today) ==
    LET yearsOfExperience == calculateExperienceYears(p.experience, today)
    IN  [name |-> IF p.name # Absent THEN p.name ELSE "Professional",
         currentRole |-> IF p.title # Absent THEN p.title ELSE "Professional",
         currentCompany |-> "Current Company",
         yearsOfExperience |-> yearsOfExperience,
         careerLevel |-> determineCareerLevel(yearsOfExperience, p.experience)]

\* extractPersonalContext(profile) on the day today
extractPersonalContext(p, today) ==
    LET yearsOfExperience ==
            IF p.yearsOfExperience # 0 THEN p.yearsOfExperience
            ELSE calculateExperienceYears(p.experience, today)
    IN  [name |-> IF p.name # Absent THEN p.name ELSE "Professional",
         currentRole |-> IF p.title # Absent THEN p.title ELSE "Professional",
         currentCompany |-> "Current Company",
         yearsOfExperience |-> yearsOfExperience,
         careerLevel |-> determineCareerLevel(yearsOfExperience, p.experience)]

\* analyzeProfessionalJourney(profile).careerProgression
careerProgression(p) ==
    [i \in DOMAIN p.experience |->
        [title |-> IF p.experience[i].title # Absent
                     THEN p.experience[i].title ELSE "Position",
         company |-> IF p.experience[i].company # Absent
                       THEN p.experience[i].company ELSE "Company",
         duration |-> p.experience[i].duration,
         significance |-> determineRoleSignificance(p.experience[i], i)]]

coreSkillKeywords ==
    {"management", "leadership", "strategy", "communication", "project", "team"}

techKeywords ==
    {"python", "javascript", "react", "sql", "aws", "docker", "kubernetes",
     "machine learning", "ai"}

\* skills.filter(skill => keywords.some(keyword => skill.toLowerCase().includes(keyword)))
SkillsMatching(skills, keywords) ==
    SelectSeq(skills, LAMBDA skill : \E keyword \in keywords : Includes(skill, keyword))

identifyCoreSkills(skills) == SkillsMatching(skills, coreSkillKeywords)

identifyTechnicalSkills(skills) == SkillsMatching(skills, techKeywords)

\* extractExpertiseContext(profile): the two skill buckets
extractExpertiseContext(p) ==
    [coreSkills |-> identifyCoreSkills(p.skills),
     technicalSkills |-> identifyTechnicalSkills(p.skills)]

\* the parts of analyzeProfileForRAG(profile) that depend on the years, the
\* titles, the skills and the clock
analyzeProfileForRAG(p, today) ==
    [personalInfo |-> extractPersonalContext(p, today),
     careerProgression |-> careerProgression(p),
     expertise |-> extractExpertiseContext(p)]

(***************************************************************************)
(* generateIcebreakers and IntelligentQuestionService.                     *)
(***************************************************************************)
\* the icebreaker count generateIcebreakers asks for
IcebreakerCount == 5

\* fallbackQuestionSelection shuffles the first count * 2 catalog entries
FallbackWindowFactor == 2

\* preFilterQuestions: fewer than 20 filtered questions are replaced by the
\* first 50 of the catalog
MinCandidates == 20

CandidateWindow == 50

\* the durations parseInt(exp.duration) reads no number from (NaN)
NotANumber(text) == text # NoDuration /\ ~IsNum(Head(text))

RECURSIVE SumParsed(_)
SumParsed(experience) ==
    IF experience = <<>> THEN 0
    ELSE (IF Head(experience).duration # NoDuration
            THEN Head(experience).duration[1].num ELSE 1)
         + SumParsed(Tail(experience))

\* experience.reduce((total, exp) => total + (exp.duration ? parseInt(exp.duration) : 1), 0);
\* one NaN makes the total NaN, which every reader treats like 0 (falsy)
SumYears(experience) ==
    IF \E i \in DOMAIN experience : NotANumber(experience[i].duration) THEN 0
    ELSE SumParsed(experience)

\* list.map(f).filter(Boolean) for a list whose absent values read Absent
Present(list) == SelectSeq(list, LAMBDA x : x # Absent)

\* the profileContext that generateIcebreakers builds before it selects
ProfileContextOf(p) ==
    [name |-> p.name, title |-> p.title, company |-> TopCompany(p),
     industry |-> TopIndustry(p), skills |-> p.skills,
     experience |-> p.experience, education |-> p.education,
     yearsOfExperience |-> SumYears(p.experience),
     previousRoles |->
        Present([i \in 1..(Len(p.experience) - 1) |-> p.experience[i + 1].title]),
     keySkillsExpertise |-> p.skills]

RECURSIVE InsertByStartYear(_, _)
\* where a stable sort places entry e in the sorted list
InsertByStartYear(sorted, e) ==
    IF sorted = <<>> THEN <<e>>
    ELSE IF Head(sorted).startYear <= e.startYear
         THEN <<Head(sorted)>> \o InsertByStartYear(Tail(sorted), e)
         ELSE <<e>> \o sorted

RECURSIVE SortByStartYear(_)
\* experience.sort((a, b) => (a.startYear || 0) - (b.startYear || 0))
SortByStartYear(experience) ==
    IF experience = <<>> THEN <<>>
    ELSE InsertByStartYear(SortByStartYear(SubSeq(experience, 1, Len(experience) - 1)),
                           experience[Len(experience)])

\* analyzeCareerProgression sorts profile.experience in place when it holds two
\* entries or more; the array is the one the caller's profile holds
analyzeCareerProgression(p) ==
    IF Len(p.experience) < 2 THEN p
    ELSE [p EXCEPT !.experience = SortByStartYear(p.experience)]

determineRoleType(title) ==
    IF title = Absent THEN "general"
    ELSE IF Includes(title, "engineer") \/ Includes(title, "developer")
              \/ Includes(title, "devops")
         THEN "technical"
    ELSE IF Includes(title, "manager") \/ Includes(title, "director")
              \/ Includes(title, "lead")
         THEN "management"
    ELSE IF Includes(title, "sales") \/ Includes(title, "marketing") THEN "business"
    ELSE "general"

determineSeniority(title, yearsOfExperience) ==
    IF yearsOfExperience # 0
    THEN IF yearsOfExperience < 3 THEN "entry"
         ELSE IF yearsOfExperience < 7 THEN "mid"
         ELSE IF yearsOfExperience < 12 THEN "senior"
         ELSE "executive"
    ELSE IF Includes(title, "junior") \/ Includes(title, "associate") THEN "entry"
    ELSE IF Includes(title, "senior") \/ Includes(title, "lead") THEN "senior"
    ELSE IF Includes(title, "director") \/ Includes(title, "vp")
              \/ Includes(title, "chief")
         THEN "executive"
    ELSE "mid"

\* the candidate questions handed to the completion service
preFilterQuestions(ctx) ==
    LET roleType == determineRoleType(ctx.title)
        seniorityLevel == determineSeniority(ctx.title, ctx.yearsOfExperience)
        byRole ==
            IF roleType = "technical"
            THEN SelectSeq(conversationStarters,
                           LAMBDA id : \/ TagsOf(id) \cap {"technical", "skills"} # {}
                                       \/ CategoryOf(id) \in {"career_background",
                                                              "personality_motivation"})
            ELSE IF roleType = "management"
            THEN SelectSeq(conversationStarters,
                           LAMBDA id : \/ TagsOf(id) \cap {"leadership", "management",
                                                           "team"} # {}
                                       \/ CategoryOf(id) = "soft_skills")
            ELSE conversationStarters
        filtered ==
            IF seniorityLevel \in {"senior", "executive"}
            THEN SelectSeq(byRole,
                           LAMBDA id : /\ "early_career" \notin TagsOf(id)
                                       /\ TagsOf(id) \cap {"leadership", "mentorship",
                                                           "strategy"} # {})
            ELSE IF seniorityLevel = "entry"
            THEN SelectSeq(byRole,
                           LAMBDA id : \/ TagsOf(id) \cap {"learning", "growth",
                                                           "early_career"} # {}
                                       \/ CategoryOf(id) = "career_background")
            ELSE byRole
    IN  IF Len(filtered) < MinCandidates
        THEN JsSlice0(conversationStarters, CandidateWindow)
        ELSE filtered

\* IntelligentQuestionService.basicCustomization: the replace calls in order
basicCustomization(question, ctx) ==
    LET withIndustry ==
            IF ctx.industry # Absent
            THEN ReplaceAll(ReplaceAll(question, {"your industry"},
                                       <<"your", ctx.industry, "industry">>),
                            {"the industry"}, <<"the", ctx.industry, "industry">>)
            ELSE question
        withRole ==
            IF ctx.title # Absent /\ ctx.company # Absent
            THEN ReplaceAll(
                   ReplaceAll(
                     ReplaceAll(withIndustry, {"your role"},
                                <<"your role", "as", ctx.title, "at", ctx.company>>),
                     {"your position"},
                     <<"your position", "as", ctx.title, "at", ctx.company>>),
                   {"your job"}, <<"your role", "as", ctx.title>>)
            ELSE withIndustry
        withCompany ==
            IF ctx.company # Absent
            THEN ReplaceAll(ReplaceAll(withRole, {"your company"}, <<ctx.company>>),
                            {"at work"}, <<"at", ctx.company>>)
            ELSE withRole
        withEducation ==
            IF Len(ctx.education) > 0 /\ ctx.education[1].school # Absent
                 /\ ctx.education[1].degree # Absent
            THEN ReplaceAll(
                   ReplaceAll(withCompany, {"your education"},
                              <<"your", ctx.education[1].degree, "from",
                                ctx.education[1].school>>),
                   {"your background"},
                   <<"your background", "with a", ctx.education[1].degree, "from",
                     ctx.education[1].school>>)
            ELSE withCompany
        withExperience ==
            IF ctx.yearsOfExperience # 0
            THEN ReplaceAll(withEducation, {"your experience"},
                            <<"your", ToString(ctx.yearsOfExperience),
                              "years of experience">>)
            ELSE withEducation
        topSkills == JoinAnd(JsSlice0(ctx.keySkillsExpertise, 2))
        withSkills ==
            IF Len(ctx.keySkillsExpertise) > 0
            THEN ReplaceAll(
                   ReplaceAll(withExperience, {"your skills"},
                              <<"your expertise", "in">> \o topSkills),
                   {"your expertise"}, <<"your expertise", "in">> \o topSkills)
            ELSE withExperience
    IN  IF Len(ctx.previousRoles) > 0
        THEN LET previousRole == ctx.previousRoles[Len(ctx.previousRoles)]
             IN  ReplaceAll(
                   ReplaceAll(withSkills, {"your previous role"},
                              <<"your previous role", "as", previousRole>>),
                   {"your career"},
                   <<"your career", "progression from", previousRole, "to",
                     IF ctx.title # Absent THEN ctx.title ELSE "your current role">>)
        ELSE withSkills

\* IntelligentQuestionService.fallbackQuestionSelection: the lists it can
\* return; the random comparator can leave the window in any order
fallbackQuestionSelection(ctx, count) ==
    LET window == JsSlice0(conversationStarters, count * FallbackWindowFactor)
    IN  { [i \in DOMAIN picked |->
             [id |-> picked[i],
              text |-> basicCustomization(QuestionText(picked[i]), ctx)]]
          : picked \in InjectiveSeqs(Range(window), Min(count, Len(window))) }

\* the text the completion service writes for a question
AiText == <<"Tell me about", "your journey", "?">>

\* a customizedQuestion the response left out (undefined)
NoText == <<Absent>>

\* a questionId the response left out (undefined)
NoQuestionId == 0

\* the entries a response's questions list can hold
AiEntries ==
    { [questionId |-> 1, customizedQuestion |-> AiText],
      [questionId |-> 2, customizedQuestion |-> AiText],
      [questionId |-> NoQuestionId, customizedQuestion |-> AiText],
      [questionId |-> 1, customizedQuestion |-> NoText] }

RECURSIVE SeqsUpTo(_, _)
\* the sequences over S of length at most n
SeqsUpTo(S, n) ==
    IF n = 0 THEN {<<>>}
    ELSE LET shorter == SeqsUpTo(S, n - 1)
         IN  shorter \cup {Append(s, x) : s \in {t \in shorter : Len(t) = n - 1}, x \in S}

\* what the await of model.generateContent(prompt) can bring: a rejection, or
\* a response text without a braced block, with a braced block JSON.parse
\* rejects, or with a JSON object whose questions field is missing, not
\* iterable, or a list of entries
AiOutcomes ==
    { [kind |-> k, hasQuestions |-> FALSE, entries |-> <<>>]
        : k \in {"transport_error", "no_json", "bad_json", "not_iterable", "object"} }
    \cup { [kind |-> "object", hasQuestions |-> TRUE, entries |-> es]
             : es \in SeqsUpTo(AiEntries, MaxAiEntries) }
    \cup { [kind |-> "object_in_braced_prose", hasQuestions |-> TRUE,
             entries |-> << [questionId |-> 1, customizedQuestion |-> AiText] >>] }

NoOutcome == [kind |-> "none", hasQuestions |-> FALSE, entries |-> <<>>]

\* the outcome of initializeAI() without GOOGLE_API_KEY
Unconfigured == [kind |-> "unconfigured", hasQuestions |-> FALSE, entries |-> <<>>]

RECURSIVE ParsedQuestions(_, _)
\* the loop of parseAIResponse: an entry whose questionId names no candidate
\* is skipped, the others are pushed with q.customizedQuestion as it is
ParsedQuestions(entries, candidateQuestions) ==
    IF entries = <<>> THEN <<>>
    ELSE (IF Head(entries).questionId \in Range(candidateQuestions)
            THEN << [id |-> Head(entries).questionId,
                     text |-> Head(entries).customizedQuestion] >>
            ELSE <<>>)
         \o ParsedQuestions(Tail(entries), candidateQuestions)

\* The response text as a sequence of segments: "prose" holds no brace, "{"
\* and "}" are braces inside prose, "block" is a well-formed JSON object.
\* The object comes with prose around it; in an object_in_braced_prose
\* response the prose after the object holds a closing brace.
ResponseLayout(response) ==
    CASE response.kind = "no_json" -> <<"prose">>
      [] response.kind = "bad_json" -> <<"prose", "{", "prose", "}">>
      [] response.kind = "object_in_braced_prose" ->
            <<"prose", "block", "prose", "}", "prose">>
      [] OTHER -> <<"prose", "block", "prose">>

\* response.match(/\{[\s\S]*\}/): the text from the first opening brace to
\* the last closing brace, <<>> when there is no match
jsonMatch(layout) ==
    LET opens == {i \in DOMAIN layout : layout[i] \in {"{", "block"}}
        first == CHOOSE i \in opens : \A j \in opens : i <= j
        closes == {i \in DOMAIN layout : layout[i] \in {"}", "block"} /\ i >= first}
        final == CHOOSE i \in closes : \A j \in closes : i >= j
    IN  IF opens = {} THEN <<>>
        ELSE IF closes = {} THEN <<>>
        ELSE SubSeq(layout, first, final)

\* IntelligentQuestionService.parseAIResponse; JSON.parse accepts the match
\* when it is one well-formed object; parsed.questions || [] makes a missing
\* questions field an empty list
parseAIResponse(response, candidateQuestions) ==
    IF jsonMatch(ResponseLayout(response)) # <<"block">> \/ response.kind = "not_iterable"
    THEN [raised |-> TRUE, questions |-> <<>>]
    ELSE [raised |-> FALSE,
          questions |-> ParsedQuestions(IF response.hasQuestions
                                          THEN response.entries ELSE <<>>,
                                        candidateQuestions)]

\* selectAndCustomizeWithAI once the completion service has answered
selectAndCustomizeWithAI(ctx, outcome) ==
    IF outcome.kind \in {"unconfigured", "transport_error"}
    THEN [raised |-> TRUE, questions |-> <<>>]
    ELSE parseAIResponse(outcome, preFilterQuestions(ctx))

\* the error of the selection is thrown on to generateIcebreakers
SelectionErrorRethrown(ctx, count) ==
    {[raised |-> TRUE, path |-> "none", questions |-> <<>>]}

\* the catch of getIntelligentQuestions: return this.fallbackQuestionSelection(...)
OnSelectionError(ctx, count) ==
    { [raised |-> FALSE, path |-> "fallback", questions |-> questions]
        : questions \in fallbackQuestionSelection(ctx, count) }

\* the ways getIntelligentQuestions(ctx, count) can settle for an outcome of
\* the completion service
getIntelligentQuestions(ctx, count, outcome) ==
    LET selected == selectAndCustomizeWithAI(ctx, outcome)
    IN  IF selected.raised THEN OnSelectionError(ctx, count)
        ELSE {[raised |-> FALSE, path |-> "ai", questions |-> selected.questions]}

\* a number of tenths as JavaScript prints it
FormatTenths(tenths) ==
    IF tenths % 10 = 0 THEN <<ToString(tenths \div 10)>>
    ELSE <<ToString(tenths \div 10), ".", ToString(tenths % 10)>>

\* the first sentence of generateProfileSummary(profile, analyzeProfileForRAG(profile));
\* a ScrapedProfile carries no currentCompany and no industry of its own
generateProfileSummary(p, today) ==
    LET personalInfo == analyzeProfileForRAG(p, today).personalInfo
    IN  <<personalInfo.name, "is a", personalInfo.currentRole, "at",
          personalInfo.currentCompany, "with">>
        \o (IF personalInfo.yearsOfExperience # 0
              THEN FormatTenths(personalInfo.yearsOfExperience) ELSE <<"several">>)
        \o <<"years of experience in", "their field">>

NoSummary == <<>>

NoContext == [name |-> Absent]

GenSessionIds == {"A", NoSessionId}

GenIdle ==
    [pc |-> "idle", sessionId |-> NoSessionId, ctx |-> NoContext, ai |-> NoOutcome,
     selectionRaised |-> FALSE, path |-> "none", questions |-> <<>>,
     icebreakers |-> <<>>, summary |-> NoSummary]

NoPrevGen == [sessionId |-> "<no request>", ids |-> {}, path |-> "none"]

\* the ids of a question list
QuestionIds(questions) == {questions[i].id : i \in DOMAIN questions}

\* questions.map(q => q.customizedQuestion)
QuestionTexts(questions) == [i \in DOMAIN questions |-> questions[i].text]

\* generateIcebreakers(profile, sessionId) up to the point where the call of
\* getIntelligentQuestions either settles at once (no API key: initializeAI
\* throws and the fallback answers) or waits for the completion service.
\* analyzeProfile runs first and sorts profile.experience in place.
GenRequest ==
    /\ gen.pc = "idle"
    /\ \E sessionId \in GenSessionIds :
         LET ctx == ProfileContextOf(profile)
         IN  IF apiKey
             THEN gen' = [GenIdle EXCEPT !.pc = "awaitAI", !.sessionId = sessionId,
                                         !.ctx = ctx]
             ELSE \E settled \in getIntelligentQuestions(ctx, IcebreakerCount,
                                                         Unconfigured) :
                    gen' = [GenIdle EXCEPT !.pc = "resolved", !.sessionId = sessionId,
                                           !.ctx = ctx, !.ai = Unconfigured,
                                           !.selectionRaised = settled.raised,
                                           !.path = settled.path,
                                           !.questions = settled.questions]
    /\ profile' = analyzeCareerProgression(profile)
    /\ UNCHANGED <<sessionQuestions, last, calls, concVars, apiKey, prevGen, anaVars>>

\* the completion service never settles the promise of generateContent
NoResponse == [kind |-> "no_response", hasQuestions |-> FALSE, entries |-> <<>>]

\* the request is lost on the way or the service holds it for ever: the await
\* of generateContent stays where it is; no timer is set around it
GenAINeverResponds ==
    /\ gen.pc = "awaitAI"
    /\ gen.ai = NoOutcome
    /\ gen' = [gen EXCEPT !.ai = NoResponse]
    /\ UNCHANGED <<sessionQuestions, profile, last, calls, concVars, apiKey, prevGen, anaVars>>

\* the completion service answers or fails; getIntelligentQuestions settles
GenAIResponds ==
    /\ gen.pc = "awaitAI"
    /\ gen.ai = NoOutcome
    /\ \E outcome \in AiOutcomes :
         \E settled \in getIntelligentQuestions(gen.ctx, IcebreakerCount, outcome) :
            gen' = [gen EXCEPT !.pc = "resolved", !.ai = outcome,
                               !.selectionRaised = settled.raised,
                               !.path = settled.path,
                               !.questions = settled.questions]
    /\ UNCHANGED <<sessionQuestions, profile, last, calls, concVars, apiKey, prevGen, anaVars>>

\* the rest of generateIcebreakers: the try block after the await, or the
\* catch block with ConversationService.getDiverseQuestions(context, 5)
GenContinue ==
    /\ gen.pc = "resolved"
    /\ IF ~gen.selectionRaised
       THEN /\ gen' = [gen EXCEPT !.pc = "done",
                                  !.icebreakers = QuestionTexts(gen.questions),
                                  !.summary = generateProfileSummary(profile, now)]
            /\ UNCHANGED sessionQuestions
       ELSE LET key == DiverseSessionKey(gen.sessionId)
                usedQuestions == UsedQuestions(sessionQuestions, key)
            IN  \E selected \in PersonalizedSelections(usedQuestions,
                                                       ProfileDataOf(profile),
                                                       IcebreakerCount) :
                   /\ gen' = [gen EXCEPT !.pc = "done", !.path = "diverse",
                                         !.questions = selected,
                                         !.icebreakers = QuestionTexts(selected),
                                         !.summary = generateProfileSummary(profile, now)]
                   /\ sessionQuestions' =
                        RecordUsed(sessionQuestions, key, usedQuestions,
                                   [i \in DOMAIN selected |-> selected[i].id])
    /\ UNCHANGED <<profile, last, calls, concVars, apiKey, prevGen, anaVars>>

\* the caller takes the result; the next request can come
GenReturn ==
    /\ gen.pc = "done"
    /\ prevGen' = [sessionId |-> gen.sessionId, ids |-> QuestionIds(gen.questions),
                   path |-> gen.path]
    /\ gen' = GenIdle
    /\ UNCHANGED <<sessionQuestions, profile, last, calls, concVars, apiKey, anaVars>>

InitGen ==
    /\ sessionQuestions = <<>>
    /\ profile \in ScrapedProfiles
    /\ last = NoOp
    /\ calls = 0
    /\ conc = <<>>
    /\ running = 0
    /\ apiKey \in BOOLEAN
    /\ gen = GenIdle
    /\ prevGen = NoPrevGen
    /\ now = Today
    /\ analysis = <<>>
    /\ returned = <<>>

NextGen == GenRequest \/ GenAIResponds \/ GenAINeverResponds \/ GenContinue \/ GenReturn

SpecGen == InitGen /\ [][NextGen]_vars

(***************************************************************************)
(* Callers of analyzeProfileForRAG: one profile, analysed repeatedly while *)
(* the clock moves on.                                                     *)
(***************************************************************************)
MaxExperience == 2

MaxAnalyses == 2

MaxDays == 1

YearsAndMonths == <<Num(1), Word("yr"), Num(6), Word("mos")>>

MonthsOnly == <<Num(9), Word("mos")>>

ClosedRange == <<Word("Jan"), Num(2020), Word(EnDash), Word("Jan"), Num(2022)>>

OpenRange == <<Word("Jan"), Num(2020), Word("-"), Word("Present")>>

Unparseable == <<Word("a"), Word("long"), Word("time")>>

DurationTexts ==
    {NoDuration, YearsAndMonths, MonthsOnly, ClosedRange, OpenRange, Unparseable}

ExperienceEntries ==
    {[title |-> t, company |-> "Acme", duration |-> d] :
        t \in {"Developer", "Director"}, d \in DurationTexts}

\* supplied yearsOfExperience in tenths: absent (0), negative, and values
\* below, on and above the thresholds
SuppliedYears == {0, 0 - 20, 20, 75, 90, 150}

\* profile.skills: none, and skills of one vocabulary and of both
SkillLists == {<<>>, <<"python", "leadership", "AWS Project Management">>}

AnalysisProfiles ==
    {[name |-> Absent, title |-> "Developer", skills |-> k,
      experience |-> e, education |-> <<>>, yearsOfExperience |-> y] :
        e \in UNION {[1..n -> ExperienceEntries] : n \in 0..MaxExperience},
        y \in SuppliedYears, k \in SkillLists}

\* a call that uses up the experience list it is given
AnalyzeProfileConsuming ==
    /\ Len(analysis) < MaxAnalyses
    /\ analysis' = Append(analysis,
                      [input |-> profile, day |-> now,
                       output |-> analyzeProfileForRAG(profile, now)])
    /\ profile' = [profile EXCEPT !.experience = <<>>]
    /\ UNCHANGED <<sessionQuestions, last, calls, concVars, genVars, now, returned>>

\* one call of analyzeProfileForRAG(profile): the profile before and after
\* the call, the day of the call and the ProfileContext it returns
AnalyzeProfile ==
    /\ Len(analysis) < MaxAnalyses
    /\ analysis' = Append(analysis,
                      [input |-> profile, day |-> now,
                       output |-> analyzeProfileForRAG(profile, now)])
    /\ UNCHANGED <<sessionQuestions, profile, last, calls, concVars, genVars, now,
                   returned>>

\* the clock that new Date() reads moves on by a day
ClockTick ==
    /\ now < Today + MaxDays
    /\ now' = now + 1
    /\ UNCHANGED <<sessionQuestions, profile, last, calls, concVars, genVars,
                   analysis, returned>>

InitAnalyze ==
    /\ sessionQuestions = <<>>
    /\ profile \in AnalysisProfiles
    /\ last = NoOp
    /\ calls = 0
    /\ conc = <<>>
    /\ running = 0
    /\ apiKey = FALSE
    /\ gen = <<>>
    /\ prevGen = <<>>
    /\ now = Today
    /\ analysis = <<>>
    /\ returned = <<>>

NextAnalyze == AnalyzeProfile \/ ClockTick

SpecAnalyze == InitAnalyze /\ [][NextAnalyze]_vars

(***************************************************************************)
(* One profile taken through analysis and selection, by callers that name  *)
(* a session and callers that name none.                                   *)
(***************************************************************************)
EndToEndProfile ==
    [name |-> Absent, title |-> "Senior Software Engineer", company |-> "Acme",
     industry |-> Absent, skills |-> <<"python", "leadership">>,
     education |-> <<>>, experience |-> <<>>, yearsOfExperience |-> 90]

\* the sessionId a caller passes, and the keys clearSession is called with
CallerSessionIds == {NoSessionId, "A"}

StoredKeys == {"default", "A"}

SelectDiverse == DiverseCall(CallerSessionIds, Counts \cap Nat) /\ UNCHANGED returned

SelectTargeted == TargetedCall(CallerSessionIds, TargetedCounts \cap Nat) /\ UNCHANGED returned

ClearStored == ClearSessionOf(StoredKeys)

InitEndToEnd ==
    /\ sessionQuestions = <<>>
    /\ profile = EndToEndProfile
    /\ last = NoOp
    /\ calls = 0
    /\ conc = <<>>
    /\ running = 0
    /\ apiKey = FALSE
    /\ gen = <<>>
    /\ prevGen = <<>>
    /\ now = Today
    /\ analysis = <<>>
    /\ returned = <<>>

NextEndToEnd == AnalyzeProfile \/ SelectDiverse \/ SelectTargeted \/ ClearStored

SpecEndToEnd == InitEndToEnd /\ [][NextEndToEnd]_vars

(***************************************************************************)
(* The PersonalizedQuestion lists the selections return.  The jitter       *)
(* Math.random() * 2 is represented by its whole part.                     *)
(***************************************************************************)
Jitters == 0..(JitterRange - 1)

\* the object personalizeQuestion returns; its relevanceScore is a new call of
\* calculateRelevanceScore, with a jitter of its own
PersonalizedQuestionOf(id, profileData, greet, jitter) ==
    [originalQuestion |-> QuestionText(id),
     personalizedQuestion |-> personalizeQuestion(id, profileData, greet),
     category |-> CategoryOf(id),
     subcategory |-> SubcategoryOf(id),
     relevanceScore |-> RuleScore(id, profileData) + jitter]

\* selectedQuestions.map(question => this.personalizeQuestion(question, profileData))
ReturnedQuestions(selected, profileData) ==
    {[i \in DOMAIN selected |->
         PersonalizedQuestionOf(selected[i], profileData, greet[i], jitter[i])] :
        greet \in [DOMAIN selected -> BOOLEAN],
        jitter \in [DOMAIN selected -> Jitters]}

\* a profileData with title and company, without name, skills and education
TitledProfile ==
    [name |-> Absent, title |-> "Lead Engineer", company |-> "Acme",
     industry |-> Absent, skills |-> <<>>, education |-> <<>>, experience |-> <<>>]

ReturnedProfiles == Profiles \cup {TitledProfile}

\* the counts of the callers: one question, and the default of generateIcebreakers
ReturnedCounts == {1, IcebreakerCount}

ReturnDiverse ==
    /\ DiverseCall({"A"}, ReturnedCounts)
    /\ returned' \in ReturnedQuestions(last'.result, profile)

ReturnTargeted ==
    /\ TargetedCall({"A"}, TargetedCounts \cap Nat)
    /\ returned' \in ReturnedQuestions(last'.result, profile)

InitReturned ==
    /\ sessionQuestions = <<>>
    /\ profile \in ReturnedProfiles
    /\ last = NoOp
    /\ calls = 0
    /\ conc = <<>>
    /\ running = 0
    /\ apiKey = FALSE
    /\ gen = <<>>
    /\ prevGen = <<>>
    /\ now = Today
    /\ analysis = <<>>
    /\ returned = <<>>

NextReturned == ReturnDiverse \/ ReturnTargeted

SpecReturned == InitReturned /\ [][NextReturned]_vars

(***************************************************************************)
(* Properties of the selection operations, checked under Spec.             *)
(***************************************************************************)
IsSelection == last.op \in {"diverse", "targeted"}

\* the catalog questions the session had not used when the last operation ran
UnusedBefore == CatalogIds \ Range(last.usedBefore)

\* C1: a diverse selection never returns the same question id twice, and never
\* returns an id that the session's used-id list held when the call was made;
\* every id it returns is in the session's list afterwards, so that the next
\* call on the session excludes it in turn.
C1_NoRepeatInSession ==
    last.op = "diverse" =>
        /\ NoDuplicates(last.result)
        /\ Range(last.result) \cap Range(last.usedBefore) = {}
        /\ Range(last.usedBefore) \cup Range(last.result)
               \subseteq Range(UsedQuestions(sessionQuestions, last.key))

\* a later diverse call on a session that already has used ids returns new ones
C1_Witness ==
    /\ last.op = "diverse"
    /\ last.usedBefore # <<>>
    /\ last.result # <<>>

C4_ShortOnlyIfCatalogSmall ==
    (last.op = "diverse" /\ last.count >= 0) =>
        /\ Len(last.result) <= last.count
        /\ (Len(last.result) < last.count => CatalogSize < last.count)

\* C4 amended: a diverse selection for count >= 0 returns at most count
\* questions, and fewer than count only if fewer than count catalog questions
\* were still unused in the session.
C4_ShortOnlyIfUnusedShort ==
    (last.op = "diverse" /\ last.count >= 0) =>
        /\ Len(last.result) <= last.count
        /\ (Len(last.result) < last.count => Cardinality(UnusedBefore) < last.count)

\* a short result although the catalog holds count questions
C4_Witness ==
    /\ last.op = "diverse"
    /\ last.count >= 0
    /\ Len(last.result) < last.count
    /\ CatalogSize >= last.count

\* C5: a diverse selection that asks for more questions than the session has
\* left unused returns exactly the unused questions, each once, and does not raise.
C5_ExhaustionDegrades ==
    (last.op = "diverse" /\ last.count > Cardinality(UnusedBefore)) =>
        /\ ~last.raised
        /\ Range(last.result) = UnusedBefore
        /\ NoDuplicates(last.result)

\* more requested than remain, with some questions used and some left
C5_Witness ==
    /\ last.op = "diverse"
    /\ last.count > Cardinality(UnusedBefore)
    /\ last.usedBefore # <<>>
    /\ UnusedBefore # {}
    /\ Range(last.result) = UnusedBefore

\* C6: a selection called with a negative count raises, returns no questions
\* and records no ids in the session.
C6_NegativeCountRejected ==
    (IsSelection /\ last.count < 0) =>
        /\ last.raised
        /\ last.result = <<>>
        /\ UsedQuestions(sessionQuestions, last.key) = last.usedBefore

(***************************************************************************)
(* Properties of concurrent selection, checked under SpecConc.             *)
(***************************************************************************)
AllCallersDone == \A c \in Callers : conc[c].pc = "done"

\* C2: the read, the selection and the write-back of one call are never
\* interleaved with those of another call, and when NumCallers concurrent calls
\* for one session, each asking for 1 question of a catalog of at least
\* NumCallers, have finished, they have returned NumCallers distinct ids and the
\* session's used-id list holds all of them.
C2_ConcurrentCallsDistinct ==
    /\ Cardinality({c \in Callers : conc[c].pc \in {"read", "selected"}}) <= 1
    /\ AllCallersDone =>
         /\ \A c \in Callers : Len(conc[c].selected) = 1
         /\ \A c, d \in Callers : c # d => conc[c].selected # conc[d].selected
         /\ Range(UsedQuestions(sessionQuestions, ConcSession))
               = {conc[c].selected[1] : c \in Callers}
         /\ Len(UsedQuestions(sessionQuestions, ConcSession)) = NumCallers

\* all the concurrent calls have finished
C2_Witness ==
    /\ CatalogSize >= NumCallers
    /\ AllCallersDone
    /\ Len(UsedQuestions(sessionQuestions, ConcSession)) = NumCallers

(***************************************************************************)
(* Properties of generateIcebreakers, checked under SpecGen.               *)
(***************************************************************************)
GenDone == gen.pc = "done"

\* the completion service could not be called at all
ServiceUnavailable == gen.ai.kind \in {"unconfigured", "transport_error"}

\* the completion service is not configured, fails in transport, or returns
\* text that cannot be parsed
ServiceFailed ==
    gen.ai.kind \in {"unconfigured", "transport_error", "no_json", "bad_json",
                     "not_iterable"}

\* the profile data of the request, as the rule-based path is handed it
RequestProfileData ==
    [name |-> gen.ctx.name, title |-> gen.ctx.title, company |-> gen.ctx.company,
     industry |-> gen.ctx.industry, skills |-> gen.ctx.skills,
     education |-> [i \in DOMAIN gen.ctx.education |->
                      <<gen.ctx.education[i].degree, "from",
                        gen.ctx.education[i].school>>],
     experience |-> gen.ctx.experience]

\* the used ids recorded for the session of the request
RecordedForRequest ==
    Range(UsedQuestions(sessionQuestions, DiverseSessionKey(gen.sessionId)))

\* C7: when the completion service is unavailable, every question a
\* generateIcebreakers call surfaces is recorded in the used ids of its
\* session, and the call shares no question with the previous call of the
\* same session while that call left catalog questions unused.
C7_RuleBasedPathRecordsSession ==
    (GenDone /\ ServiceUnavailable) =>
        /\ QuestionIds(gen.questions) \subseteq RecordedForRequest
        /\ (prevGen.sessionId = gen.sessionId /\ CatalogIds \ prevGen.ids # {})
             => QuestionIds(gen.questions) \cap prevGen.ids = {}

\* C8: with a completion service that always errors, the icebreakers of the
\* AI-assisted path are, up to their order, icebreakers the rule-based path
\* (getDiverseQuestions with personalizeQuestion) can produce for the same
\* profile, session and count under some outcome of its random choices.
C8_FallbackEqualsRuleBasedPath ==
    (GenDone /\ gen.ai.kind = "transport_error") =>
        \E selected \in PersonalizedSelections(
                            UsedQuestions(sessionQuestions,
                                          DiverseSessionKey(gen.sessionId)),
                            RequestProfileData, IcebreakerCount) :
            /\ Len(selected) = Len(gen.icebreakers)
            /\ Range(QuestionTexts(selected)) = Range(gen.icebreakers)

MissingField ==
    /\ gen.ai.kind = "object"
    /\ \/ ~gen.ai.hasQuestions
       \/ \E i \in DOMAIN gen.ai.entries :
            \/ gen.ai.entries[i].questionId = NoQuestionId
            \/ gen.ai.entries[i].customizedQuestion = NoText

\* C10: when the response is a well-formed JSON object in which a required
\* field is missing, the request is answered by the rule-based fallback: the
\* caller gets a non-empty list in which every entry has a question text.
C10_MissingFieldFallsBack ==
    (GenDone /\ MissingField) =>
        /\ gen.path = "fallback"
        /\ gen.icebreakers # <<>>
        /\ \A i \in DOMAIN gen.icebreakers : gen.icebreakers[i] # NoText


\* C11: a generateIcebreakers call never hangs: while it waits for a
\* completion service that does not respond, the call still has a step to
\* take (the timeout) that leads it to return the rule-based result.
C11_CallNeverHangs ==
    (gen.pc = "awaitAI" /\ gen.ai = NoResponse) => ENABLED NextGen

CareerLevels == {"entry", "mid", "senior", "executive"}

\* C12: for every profile, whatever yearsOfExperience value is supplied and
\* whatever the experience entries are, the ProfileContext returned by
\* analyzeProfileForRAG has yearsOfExperience >= 0 and a careerLevel that
\* is one of entry, mid, senior and executive.
C12_ContextWellFormed ==
    \A i \in DOMAIN analysis :
        /\ analysis[i].output.personalInfo.yearsOfExperience >= 0
        /\ analysis[i].output.personalInfo.careerLevel \in CareerLevels

\* the entry's months come from a date range that ends at Present
EndsAtPresent(text) ==
    /\ text # NoDuration
    /\ FirstUnit(text, YearWords) * 12 + FirstUnit(text, MonthWords) = 0
    /\ \E i \in DateRangeMatches(text) :
          /\ \A j \in DateRangeMatches(text) : i <= j
          /\ IsPresent(text[i + 3])

\* the analysis of the profile reads the clock
ReadsClock(p) ==
    /\ p.yearsOfExperience = 0
    /\ \E k \in DOMAIN p.experience : EndsAtPresent(p.experience[k].duration)

SingleEntryYears(duration) ==
    {analysis[i].output.personalInfo.yearsOfExperience : i \in
        {k \in DOMAIN analysis :
            /\ analysis[k].input.yearsOfExperience = 0
            /\ Len(analysis[k].input.experience) = 1
            /\ analysis[k].input.experience[1].duration = duration}}

\* C14: with one experience entry and no supplied years, "1 yr 6 mos" gives
\* 1.5 years, "9 mos" gives 0.75, "Jan 2020 - Jan 2022" gives 2.0 within
\* 0.1, and a text no pattern matches gives 0.
C14_ExperienceYears ==
    /\ \A y \in SingleEntryYears(YearsAndMonths) : y = 15
    /\ \A y \in SingleEntryYears(MonthsOnly) : y * 10 = 75
    /\ \A y \in SingleEntryYears(ClosedRange) : y >= 19 /\ y <= 21
    /\ \A y \in SingleEntryYears(Unparseable) : y = 0

\* C14, amended: as C14, but "9 mos" gives 0.8, the 0.75 years rounded to
\* one decimal.
C14_ExperienceYearsRounded ==
    /\ \A y \in SingleEntryYears(YearsAndMonths) : y = 15
    /\ \A y \in SingleEntryYears(MonthsOnly) : y = 8
    /\ \A y \in SingleEntryYears(ClosedRange) : y >= 19 /\ y <= 21
    /\ \A y \in SingleEntryYears(Unparseable) : y = 0

C14_Witness ==
    /\ SingleEntryYears(MonthsOnly) = {8}
    /\ Len(analysis) = MaxAnalyses

\* C15: the career level is a function of the total years only: below 3
\* years entry, from 3 and below 8 mid, from 8 and below 15 senior, 15 and
\* more executive; a director title in the top experience entry changes
\* the significance of the role and never the level.
C15_LevelFromYearsOnly ==
    \A i \in DOMAIN analysis :
        LET years == analysis[i].output.personalInfo.yearsOfExperience
            level == analysis[i].output.personalInfo.careerLevel
        IN  /\ years < 30 => level = "entry"
            /\ (years >= 30 /\ years < 80) => level = "mid"
            /\ (years >= 80 /\ years < 150) => level = "senior"
            /\ years >= 150 => level = "executive"

C15_Witness ==
    /\ Len(analysis) >= 1
    /\ Len(profile.experience) >= 2
    /\ profile.experience[1].title = "Director"
    /\ profile.experience[2].title = "Director"
    /\ analysis[1].output.careerProgression[2].significance = "high"
    /\ analysis[1].output.personalInfo.yearsOfExperience = 36
    /\ analysis[1].output.personalInfo.careerLevel = "mid"

\* the categories of the questions of a result
CategoriesOf(result) == {CategoryOf(result[i]) : i \in DOMAIN result}

IsPrefix(a, b) == Len(a) <= Len(b) /\ SubSeq(b, 1, Len(a)) = a

\* C17: the list of a session exists from the first selection that names
\* the session; every step other than clearSession of that session keeps
\* the list and its earlier entries in place (selections append, nothing
\* expires); clearSession removes the list, and the questions used before
\* the clear can then be selected again for that session.
C17_SessionLifecycle ==
    [][/\ \A key \in DOMAIN sessionQuestions :
             IF last'.op = "clear" /\ last'.key = key
             THEN key \notin DOMAIN sessionQuestions'
             ELSE /\ key \in DOMAIN sessionQuestions'
                  /\ IsPrefix(sessionQuestions[key], sessionQuestions'[key])
       /\ last'.op \in {"diverse", "targeted"} =>
             /\ last'.key \in DOMAIN sessionQuestions'
             /\ sessionQuestions'[last'.key] = last'.usedBefore \o last'.result
       /\ (last'.op = "clear" /\ last'.usedBefore # <<>>) =>
             \E s \in DiverseSelections(UsedQuestions(sessionQuestions', last'.key),
                                        profile', CatalogSize) :
                Range(last'.usedBefore) \subseteq Range(s)]_vars

C17_Witness ==
    /\ last.op \in {"diverse", "targeted"}
    /\ last.usedBefore # <<>>
    /\ last.result # <<>>
    /\ sessionQuestions[last.key] = last.usedBefore \o last.result

\* the list of the default session
DefaultUsed(map) == UsedQuestions(map, "default")

\* C18: a selection call without a sessionId works on the one session
\* "default": it returns no question that list holds, which are the
\* questions earlier anonymous calls returned, and appends what it returns;
\* the list loses entries only when the default session is cleared.
C18_AnonymousCallsShareDefault ==
    [][/\ (/\ calls' # calls
           /\ last'.op \in {"diverse", "targeted"}
           /\ last'.sessionId = NoSessionId) =>
             /\ last'.key = "default"
             /\ last'.usedBefore = DefaultUsed(sessionQuestions)
             /\ Range(last'.result) \cap Range(DefaultUsed(sessionQuestions)) = {}
             /\ DefaultUsed(sessionQuestions') =
                    DefaultUsed(sessionQuestions) \o last'.result
       /\ ~(calls' # calls /\ last'.op = "clear" /\ last'.key = "default") =>
             IsPrefix(DefaultUsed(sessionQuestions), DefaultUsed(sessionQuestions'))]_vars

C18_Witness ==
    /\ last.op \in {"diverse", "targeted"}
    /\ last.sessionId = NoSessionId
    /\ last.usedBefore # <<>>
    /\ last.result # <<>>
    /\ DefaultUsed(sessionQuestions) = last.usedBefore \o last.result

\* C19: a selection call changes nothing but the list of the session it
\* names, to which it appends exactly the ids it returns, in the order
\* returned: the earlier part of that list, the lists of all other
\* sessions and the profile it was given stay as they were.
C19_SelectionFrame ==
    [][last'.op \in {"diverse", "targeted"} =>
          /\ DOMAIN sessionQuestions' = DOMAIN sessionQuestions \cup {last'.key}
          /\ sessionQuestions'[last'.key] =
                UsedQuestions(sessionQuestions, last'.key) \o last'.result
          /\ \A other \in DOMAIN sessionQuestions \ {last'.key} :
                sessionQuestions'[other] = sessionQuestions[other]
          /\ profile' = profile]_vars

C19_Witness ==
    /\ last.op \in {"diverse", "targeted"}
    /\ Len(last.result) >= 2
    /\ \E other \in DOMAIN sessionQuestions :
          other # last.key /\ Len(sessionQuestions[other]) >= 2

\* the number of questions the last diverse call takes from the i-th
\* category: its share of the distribution, or all that were still unused
CategoryTaken(i) ==
    Min(calculateCategoryDistribution(last.count)[i],
        Cardinality({q \in UnusedBefore : CategoryOf(q) = Categories[i]}))

\* C20: the sequence one diverse selection returns begins with its
\* career_background picks, followed by its soft_skills picks, followed by
\* its personality_motivation picks; the backfilled questions come last.
C20_CategoryOrderThenBackfill ==
    (last.op = "diverse" /\ last.count >= 0) =>
        LET first == CategoryTaken(1)
            second == first + CategoryTaken(2)
            third == second + CategoryTaken(3)
        IN  /\ Len(last.result) >= third
            /\ \A j \in 1..third :
                  CategoryOf(last.result[j]) =
                     Categories[IF j <= first THEN 1 ELSE IF j <= second THEN 2 ELSE 3]
            /\ Len(last.result) > third => third < last.count

C20_Witness ==
    /\ last.op = "diverse"
    /\ CategoryTaken(1) >= 1
    /\ CategoryTaken(2) >= 1
    /\ Len(last.result) > CategoryTaken(1) + CategoryTaken(2) + CategoryTaken(3)

\* the targets the last diverse call computed for its count
LastDistribution == calculateCategoryDistribution(last.count)

\* C21: for every count >= 0 the targets of the three categories sum to
\* count, any two of them differ by at most 1, and they do not increase in
\* category order (the remainder goes to the earliest categories).
C21_DistributionBalanced ==
    (last.op = "diverse" /\ last.count >= 0) =>
        /\ DOMAIN LastDistribution = DOMAIN Categories
        /\ LastDistribution[1] + LastDistribution[2] + LastDistribution[3] = last.count
        /\ \A i, j \in DOMAIN Categories :
              /\ LastDistribution[i] - LastDistribution[j] <= 1
              /\ i < j => LastDistribution[i] >= LastDistribution[j]

C21_Witness ==
    /\ last.op = "diverse"
    /\ last.count = IcebreakerCount
    /\ LastDistribution = <<2, 2, 1>>
    /\ Len(last.result) = IcebreakerCount

\* the question meets the one criterion the caller supplied
MeetsCriterion(id, criteria) ==
    \/ criteria.category # NoCriterion /\ CategoryOf(id) = criteria.category
    \/ criteria.tags # {NoCriterion} /\ TagsOf(id) \cap criteria.tags # {}
    \/ criteria.subcategory # NoCriterion /\ SubcategoryOf(id) = criteria.subcategory

\* C22: a targeted selection returns at most count questions, every one of
\* them meets the one criterion supplied (nothing is backfilled from outside
\* the filter), and without a criterion it returns nothing.
C22_TargetedFiltersByCriterion ==
    (last.op = "targeted" /\ last.count >= 0) =>
        /\ Len(last.result) <= last.count
        /\ \A i \in DOMAIN last.result : MeetsCriterion(last.result[i], last.criteria)
        /\ last.criteria = NoCriteria => last.result = <<>>

C22_Witness ==
    /\ last.op = "targeted"
    /\ last.criteria.category = "soft_skills"
    /\ last.result # <<>>
    /\ Len(last.result) < last.count
    /\ Cardinality(UnusedBefore) >= last.count

\* C23: in every analysis the buckets coreSkills and technicalSkills have
\* no skill in common: a skill that matches keywords of both vocabularies
\* is put in the first matching bucket only.
C23_SkillBucketsDisjoint ==
    \A i \in DOMAIN analysis :
        Range(analysis[i].output.expertise.coreSkills)
            \cap Range(analysis[i].output.expertise.technicalSkills) = {}

\* the template holds one of the phrases
HasPhrase(id, phrases) == \E i \in DOMAIN QuestionText(id) : QuestionText(id)[i] \in phrases

\* one of the three substitution rules applies to the question and the profile
RuleApplies(id, profileData) ==
    \/ /\ profileData.title # Absent /\ profileData.company # Absent
       /\ HasPhrase(id, {"your work", "your job", "your role", "your career"})
    \/ Len(profileData.skills) > 0 /\ HasPhrase(id, {"your skills"})
    \/ Len(profileData.education) > 0 /\ HasPhrase(id, {"your background"})

\* C24: personalization returns a PersonalizedQuestion for every selected
\* question, its originalQuestion is the template unchanged, and when the
\* profile has no name and no substitution rule applies its
\* personalizedQuestion is the template verbatim.
C24_PersonalizationTotal ==
    last.op \in {"diverse", "targeted"} =>
        /\ Len(returned) = Len(last.result)
        /\ \A i \in DOMAIN returned :
              /\ returned[i].originalQuestion = QuestionText(last.result[i])
              /\ (profile.name = Absent /\ ~RuleApplies(last.result[i], profile)) =>
                    returned[i].personalizedQuestion = QuestionText(last.result[i])

C24_Witness ==
    /\ profile = TitledProfile
    /\ \E i \in DOMAIN returned :
          /\ last.result[i] = 3
          /\ isRoleRelevant(last.result[i])
          /\ returned[i].personalizedQuestion = returned[i].originalQuestion
    /\ \E i \in DOMAIN returned :
          returned[i].personalizedQuestion # returned[i].originalQuestion

\* the positions of the returned list two of which must be in ranking order:
\* the whole list of a targeted selection, the category picks of a diverse one
RankedPositions ==
    IF last.op = "targeted" THEN DOMAIN returned
    ELSE IF last.op = "diverse" /\ last.count >= 0
    THEN 1..Min(Len(returned), CategoryTaken(1) + CategoryTaken(2) + CategoryTaken(3))
    ELSE {}

\* C29: the relevanceScore reported on the returned questions never
\* increases along a targeted selection, nor along the picks of one
\* category in a diverse selection: it is the score that ranked them.
C29_ReportedScoresRanked ==
    \A i, j \in RankedPositions :
        (/\ i < j
         /\ (last.op = "targeted" \/ returned[i].category = returned[j].category)) =>
            returned[i].relevanceScore >= returned[j].relevanceScore

\* C25: a response made of prose, one well-formed JSON object and more
\* prose that holds a brace is answered with the questions of that object:
\* the selection does not fail and returns what the object lists.
C25_FirstBlockExtracted ==
    (gen.pc \in {"resolved", "done"} /\ gen.ai.kind = "object_in_braced_prose") =>
        /\ ~gen.selectionRaised
        /\ gen.path = "ai"
        /\ gen.questions = ParsedQuestions(gen.ai.entries, preFilterQuestions(gen.ctx))

\* C26: whatever diverse selections, targeted selections and clearSession
\* calls came before, no session list holds an id twice, and a selection of
\* either mode returns no id that the list of its session already held.
C26_ModesShareUsedIds ==
    /\ \A key \in DOMAIN sessionQuestions : NoDuplicates(sessionQuestions[key])
    /\ last.op \in {"diverse", "targeted"} =>
          Range(last.result) \cap Range(last.usedBefore) = {}

\* a targeted selection on a session whose list a diverse selection filled
C26_Witness ==
    /\ last.op = "targeted"
    /\ Len(last.usedBefore) > DefaultTargetedCount
    /\ \E i \in DOMAIN last.usedBefore :
          MeetsCriterion(last.usedBefore[i], last.criteria)
    /\ last.result # <<>>
    /\ sessionQuestions[last.key] = last.usedBefore \o last.result

(***************************************************************************)
(* Callers without a session name of their own (SpecKeys): the context     *)
(* carries no sessionId, or carries the empty string.                      *)
(***************************************************************************)
EmptySessionId == ""

UnnamedSessionIds == {NoSessionId, EmptySessionId}

\* the keys the two selection modes can store under for these callers
UnnamedKeys == {"default", EmptySessionId}

DiverseUnnamed == DiverseCall(UnnamedSessionIds, Counts \cap Nat) /\ UNCHANGED returned

TargetedUnnamed ==
    TargetedCall(UnnamedSessionIds, TargetedCounts \cap Nat) /\ UNCHANGED returned

ClearUnnamed == ClearSessionOf(UnnamedKeys)

NextKeys == DiverseUnnamed \/ TargetedUnnamed \/ ClearUnnamed

SpecKeys == Init /\ [][NextKeys]_vars

\* C27: a selection of either mode works on the session list that both
\* modes resolve its sessionId to, the empty string included; in particular
\* the ids it returns are not in the list the other mode keeps for that
\* sessionId.
C27_SameSessionKey ==
    last.op \in {"diverse", "targeted"} =>
        /\ DiverseSessionKey(last.sessionId) = TargetedSessionKey(last.sessionId)
        /\ last.key = DiverseSessionKey(last.sessionId)
        /\ Range(last.result) \cap
             Range(UsedQuestions(sessionQuestions,
                                 TargetedSessionKey(last.sessionId)))
             \subseteq Range(last.result) \cap
                       Range(UsedQuestions(sessionQuestions,
                                 DiverseSessionKey(last.sessionId)))

\* C28: no step of generateIcebreakers changes the profile the caller passed,
\* the order of profile.experience included, so that the analysis behind the
\* summary reads at index 0 the entry the caller put there.
C28_CallerProfileUnchanged ==
    [][/\ profile'.experience = profile.experience
       /\ profile' = profile
       /\ gen'.pc = "done" => TopCompany(profile') = gen'.ctx.company]_vars

\* C30: whichever path answered, generateIcebreakers returns at most five
\* icebreakers and no two of them come from the same catalog question.
C30_AtMostFiveDistinct ==
    GenDone =>
        /\ Len(gen.icebreakers) <= IcebreakerCount
        /\ Len(gen.icebreakers) = Len(gen.questions)
        /\ \A i, j \in DOMAIN gen.questions :
              gen.questions[i].id = gen.questions[j].id => i = j

=============================================================================
